---- MODULE Spec2Model ----
(***************************************************************************)
(* Flight Indicators Monitor: the telemetry server (server/src/index.ts)   *)
(* and the React client's data flow (client/src/App.tsx).                  *)
(*                                                                         *)
(* The server is modelled at the granularity of its await points: a POST   *)
(* handler runs from its first line to `await data.save()` in one step and *)
(* resumes when save() settles; a GET handler runs to `await find()` and   *)
(* resumes when the query settles.  Several requests may be in flight at   *)
(* once.  The MongoDB collection is the only shared state.                 *)
(***************************************************************************)
EXTENDS Integers, Sequences, FiniteSets

\* ------------------------------------------------------------------ bounds
\* Number of HTTP requests a behaviour may contain (requests are numbered in
\* the order in which the server starts handling them).
MaxReq == 3

Req == 1..MaxReq

\* ------------------------------------------------------- JavaScript values
\* A JSON/JavaScript value: its `typeof` class and, for numbers, the value.
\* Numbers are modelled as integers.
JsNum(n) == [t |-> "number", v |-> n]
undefined == [t |-> "undefined", v |-> 0]
JsStr == [t |-> "string", v |-> 0]
NaN == [t |-> "NaN", v |-> 0]
null == [t |-> "null", v |-> 0]

\* A type test that accepts whatever Number() can coerce (a plausible slip:
\* `isNaN(Number(x))` in place of `typeof x !== 'number'`).
typeof_coercing(x) ==
  CASE x.t \in {"number", "NaN", "string", "null"} -> "number"
    [] OTHER -> x.t

\* typeof x
typeof(x) ==
  CASE x.t \in {"number", "NaN"} -> "number"
    [] x.t = "null" -> "object"
    [] OTHER -> x.t

\* A normalisation that only folds values above the bound back once
\* (`HIS > 360 ? HIS - 360 : HIS`).
JsRem_subtractOnce(a, n) == IF a > n THEN a - n ELSE a

\* a % n of JavaScript: the remainder takes the sign of the dividend.
JsRem(a, n) == IF a >= 0 THEN a % n ELSE -((-a) % n)

\* ------------------------------------------------------------ the schema
AltitudeMin == 0
AltitudeMax == 3000
HISMin == 0
HISMax == 360
ADIMin == -100
ADIMax == 100

NoDoc == [_id |-> 0, Altitude |-> 0, HIS |-> 0, ADI |-> 0]
NoBody == [Altitude |-> undefined, HIS |-> undefined, ADI |-> undefined]

\* One schema validator: the (path, validator) pair it reports when it fails.
Validator(fails, path, kind) == IF fails THEN {<<path, kind>>} ELSE {}

\* The schema with HIS declared without `min: 0`.
telemetrySchema_noHISMin(doc) ==
  Validator(doc.Altitude < AltitudeMin, "Altitude", "min")
  \cup Validator(doc.Altitude > AltitudeMax, "Altitude", "max")
  \cup Validator(doc.HIS > HISMax, "HIS", "max")
  \cup Validator(doc.ADI < ADIMin, "ADI", "min")
  \cup Validator(doc.ADI > ADIMax, "ADI", "max")

\* The schema with Altitude declared without `max: 3000`.
telemetrySchema_noAltitudeMax(doc) ==
  Validator(doc.Altitude < AltitudeMin, "Altitude", "min")
  \cup Validator(doc.HIS < HISMin, "HIS", "min")
  \cup Validator(doc.HIS > HISMax, "HIS", "max")
  \cup Validator(doc.ADI < ADIMin, "ADI", "min")
  \cup Validator(doc.ADI > ADIMax, "ADI", "max")

\* The schema's validators run on a document: the set of failures.  After the
\* handler's type test every field is a number, so `required` and the cast to
\* Number always pass and only min/max decide.
telemetrySchema(doc) ==
  Validator(doc.Altitude < AltitudeMin, "Altitude", "min")
  \cup Validator(doc.Altitude > AltitudeMax, "Altitude", "max")
  \cup Validator(doc.HIS < HISMin, "HIS", "min")
  \cup Validator(doc.HIS > HISMax, "HIS", "max")
  \cup Validator(doc.ADI < ADIMin, "ADI", "min")
  \cup Validator(doc.ADI > ADIMax, "ADI", "max")

\* ------------------------------------------------------- response bodies
NoMsg == [text |-> "", errors |-> {}]
InvalidInputMsg == [text |-> "Invalid input: all fields must be numbers", errors |-> {}]
DataSavedMsg == [text |-> "Data saved", errors |-> {}]
\* (err as Error).message of a mongoose ValidationError names the failing paths.
ValidationMsg(errs) == [text |-> "Telemetry validation failed", errors |-> errs]
\* the message of a store-layer failure (connection lost, server selection ...)
StoreErrorMsg == [text |-> "MongoServerError", errors |-> {}]
NoStatus == 0

\* --------------------------------------------------------------- inputs
AltVals == {undefined, JsStr, JsNum(-1), JsNum(100), JsNum(3001)}
HISVals == {undefined, JsStr, JsNum(-10), JsNum(10), JsNum(360), JsNum(370)}
ADIVals == {undefined, JsStr, JsNum(-101), JsNum(0), JsNum(101)}

\* The request bodies external callers send: a well-formed reading with at
\* most one field changed to a missing, non-numeric or out-of-range value.
Ordinary(p) ==
  Cardinality({f \in {"Altitude", "HIS", "ADI"} :
     p[f] \notin {JsNum(100), JsNum(10), JsNum(0)}}) <= 1
Payloads == {p \in [Altitude : AltVals, HIS : HISVals, ADI : ADIVals] : Ordinary(p)}

\* What the user can type into an input of the dialog, and Number(text).
InputTexts == {"10", "abc"}
Number(text) ==
  CASE text = "10" -> JsNum(10)
    [] text = "5000" -> JsNum(5000)
    [] OTHER -> NaN

\* JSON.stringify of one field as axios sends it and express.json() parses it:
\* NaN is written as null, an undefined field is left out.
toJSON(x) == IF x.t = "NaN" THEN null ELSE x
bodyOf(f) == [Altitude |-> toJSON(f.Altitude), HIS |-> toJSON(f.HIS), ADI |-> toJSON(f.ADI)]

VARIABLES
  collection,   \* the Telemetry collection, in the order the store inserted
  idCounter,    \* the process's ObjectId generator
  req,          \* the HTTP requests: handler position and response
  form,         \* App: useState form
  records,      \* App: useState records
  showDialog,   \* App: useState showDialog
  fetch,        \* App: the startup fetchData call
  submit        \* App: the handleSubmit call

server == <<collection, idCounter, req>>
client == <<form, records, showDialog, fetch, submit>>
vars == <<collection, idCounter, req, form, records, showDialog, fetch, submit>>

\* A request slot: the handler's position, what it holds (req.body, the
\* document, the error its awaited store operation rejected with) and the
\* response (status, text body, JSON body).
FreeReq == [method |-> "-", pc |-> "free", body |-> NoBody, doc |-> NoDoc,
            err |-> NoMsg, status |-> NoStatus, msg |-> NoMsg, data |-> <<>>]

Init ==
  /\ collection = <<>>
  /\ idCounter = 0
  /\ req = [r \in Req |-> FreeReq]
  /\ form = NoBody
  /\ records = <<>>
  /\ showDialog = FALSE
  /\ fetch = [pc |-> "mount", get |-> 0]
  /\ submit = [pc |-> "idle", post |-> 0, get |-> 0]

\* ------------------------------------------------------------ the server
\* The slot of the next request the server starts handling.
NextSlot == Cardinality({r \in Req : req[r].pc # "free"}) + 1

\* new Telemetry({...}): the document gets its _id when it is constructed.
NewTelemetry(alt, his, adi) ==
  [_id |-> idCounter + 1, Altitude |-> alt, HIS |-> his, ADI |-> adi]

\* app.post('/api/telemetry'), from its first line to `await data.save()`.
PostHandler(r, payload) ==
  /\ r = NextSlot
  /\ r \in Req
  /\ IF \/ typeof(payload.Altitude) # "number"
        \/ typeof(payload.HIS) # "number"
        \/ typeof(payload.ADI) # "number"
     THEN /\ req' = [req EXCEPT ![r] =
                 [method |-> "POST", pc |-> "done", body |-> payload, doc |-> NoDoc,
                  err |-> NoMsg, status |-> 400, msg |-> InvalidInputMsg,
                  data |-> <<>>]]
          /\ UNCHANGED <<collection, idCounter>>
     ELSE /\ req' = [req EXCEPT ![r] =
                 [method |-> "POST", pc |-> "saving", body |-> payload,
                  doc |-> NewTelemetry(payload.Altitude.v,
                                       JsRem(payload.HIS.v, 360),
                                       payload.ADI.v),
                  err |-> NoMsg, status |-> NoStatus, msg |-> NoMsg,
                  data |-> <<>>]]
          /\ idCounter' = idCounter + 1
          /\ UNCHANGED collection

\* An insert that is an upsert keyed on the reading's values.
insertOne_upsert(doc) ==
  IF \E i \in DOMAIN collection :
        /\ collection[i].Altitude = doc.Altitude
        /\ collection[i].HIS = doc.HIS
        /\ collection[i].ADI = doc.ADI
  THEN collection
  ELSE Append(collection, doc)

\* An insert that replaces the latest reading instead of adding one.
insertOne_overwrite(doc) ==
  IF collection = <<>> THEN <<doc>>
  ELSE [collection EXCEPT ![Len(collection)] = doc]

\* The store's insert of a validated document.
insertOne(doc) == Append(collection, doc)

\* `await data.save()` fulfils or rejects on validation: a validation failure
\* is thrown into the catch block, otherwise the document is inserted and 201
\* is sent.
SaveSettles(r) ==
  /\ req[r].pc = "saving"
  /\ LET errs == telemetrySchema(req[r].doc) IN
     IF errs # {}
     THEN /\ req' = [req EXCEPT ![r].pc = "done", ![r].status = 400,
                                ![r].err = ValidationMsg(errs),
                                ![r].msg = ValidationMsg(errs)]
          /\ UNCHANGED <<collection, idCounter>>
     ELSE /\ collection' = insertOne(req[r].doc)
          /\ req' = [req EXCEPT ![r].pc = "done", ![r].status = 201,
                                ![r].msg = DataSavedMsg]
          /\ UNCHANGED idCounter

\* `await data.save()` rejects with a store-layer failure after validation
\* passed: the catch block answers 400 with the error's message.
SaveFails(r) ==
  /\ req[r].pc = "saving"
  /\ telemetrySchema(req[r].doc) = {}
  /\ req' = [req EXCEPT ![r].pc = "done", ![r].status = 400,
                        ![r].err = StoreErrorMsg, ![r].msg = StoreErrorMsg]
  /\ UNCHANGED <<collection, idCounter>>

\* A query without the sort: the store's natural (insertion) order.
SortDesc_unsorted(s) == s

\* .sort({ _id: -1 })
RECURSIVE SortDesc(_)
SortDesc(s) ==
  IF s = <<>> THEN <<>>
  ELSE LET i == CHOOSE i \in 1..Len(s) :
                  \A j \in 1..Len(s) :
                     \/ s[j]._id < s[i]._id
                     \/ (s[j]._id = s[i]._id /\ i <= j)
       IN <<s[i]>> \o SortDesc(SubSeq(s, 1, i - 1) \o SubSeq(s, i + 1, Len(s)))

\* Telemetry.find().sort({ _id: -1 }) evaluated by the store now.
find == SortDesc(collection)

\* app.get('/api/telemetry'), to `await Telemetry.find()...`.
GetHandler(r) ==
  /\ r = NextSlot
  /\ r \in Req
  /\ req' = [req EXCEPT ![r] = [FreeReq EXCEPT !.method = "GET", !.pc = "finding"]]
  /\ UNCHANGED <<collection, idCounter>>

\* The query fulfils and res.json(data) answers 200.
FindSettles(r) ==
  /\ req[r].pc = "finding"
  /\ req' = [req EXCEPT ![r].pc = "done", ![r].status = 200, ![r].data = find]
  /\ UNCHANGED <<collection, idCounter>>

\* The query rejects.  The GET handler has no try/catch, so the rejection
\* leaves the async handler: Express 4 never answers the request (pc "hung"),
\* Express 5 passes it to the default error handler, which answers 500.
FindFails(r) ==
  /\ req[r].pc = "finding"
  /\ \/ req' = [req EXCEPT ![r].pc = "hung", ![r].err = StoreErrorMsg]
     \/ req' = [req EXCEPT ![r].pc = "done", ![r].status = 500,
                           ![r].err = StoreErrorMsg, ![r].msg = StoreErrorMsg]
  /\ UNCHANGED <<collection, idCounter>>

\* Requests of arbitrary HTTP callers.
Submit == \E p \in Payloads : PostHandler(NextSlot, p) /\ UNCHANGED client
List == GetHandler(NextSlot) /\ UNCHANGED client
\* The awaited store operations settling.
Save == \E r \in Req : SaveSettles(r) /\ UNCHANGED client
Find == \E r \in Req : FindSettles(r) /\ UNCHANGED client
SaveError == \E r \in Req : SaveFails(r) /\ UNCHANGED client
FindError == \E r \in Req : FindFails(r) /\ UNCHANGED client

\* ------------------------------------------------------------ the client
\* useEffect(() => { fetchData() }, []): the startup GET is sent.
FetchData ==
  /\ fetch.pc = "mount"
  /\ GetHandler(NextSlot)
  /\ fetch' = [pc |-> "waiting", get |-> NextSlot]
  /\ UNCHANGED <<form, records, showDialog, submit>>

\* fetchData resumes with the response: setRecords(data), or the catch block.
FetchDataResumes ==
  /\ fetch.pc = "waiting"
  /\ req[fetch.get].pc = "done"
  /\ records' = IF req[fetch.get].status = 200 THEN req[fetch.get].data ELSE records
  /\ fetch' = [fetch EXCEPT !.pc = IF req[fetch.get].status = 200 THEN "loaded" ELSE "failed"]
  /\ UNCHANGED <<server, form, showDialog, submit>>

\* The "+" button.
OpenDialog ==
  /\ ~showDialog
  /\ showDialog' = TRUE
  /\ UNCHANGED <<server, form, records, fetch, submit>>

\* The Cancel button.
Cancel ==
  /\ showDialog
  /\ showDialog' = FALSE
  /\ UNCHANGED <<server, form, records, fetch, submit>>

\* handleChange: typing into one of the dialog's inputs.
handleChange(name, text) ==
  /\ showDialog
  /\ form' = [form EXCEPT ![name] = Number(text)]
  /\ UNCHANGED <<server, records, showDialog, fetch, submit>>

HandleChange == \E name \in {"Altitude", "HIS", "ADI"}, text \in InputTexts : handleChange(name, text)

\* handleSubmit, from the Send click to `await axios.post(...)`.  One
\* handleSubmit call is followed at a time.
HandleSubmit ==
  /\ showDialog
  /\ submit.pc \in {"idle", "succeeded", "failed"}
  /\ PostHandler(NextSlot, bodyOf(form))
  /\ submit' = [pc |-> "posting", post |-> NextSlot, get |-> 0]
  /\ UNCHANGED <<form, records, showDialog, fetch>>

\* handleSubmit resumes with the POST's response: a 201 is followed by the
\* GET, anything else is thrown by axios into the catch block.
HandleSubmitPosted ==
  /\ submit.pc = "posting"
  /\ req[submit.post].pc = "done"
  /\ IF req[submit.post].status = 201
     THEN /\ GetHandler(NextSlot)
          /\ submit' = [submit EXCEPT !.pc = "getting", !.get = NextSlot]
     ELSE /\ submit' = [submit EXCEPT !.pc = "failed"]
          /\ UNCHANGED server
  /\ UNCHANGED <<form, records, showDialog, fetch>>

\* handleSubmit resumes with the GET's response: setRecords(data),
\* setForm({}), setShowDialog(false); or the catch block.
HandleSubmitListed ==
  /\ submit.pc = "getting"
  /\ req[submit.get].pc = "done"
  /\ IF req[submit.get].status = 200
     THEN /\ records' = req[submit.get].data
          /\ form' = NoBody
          /\ showDialog' = FALSE
          /\ submit' = [submit EXCEPT !.pc = "succeeded"]
     ELSE /\ submit' = [submit EXCEPT !.pc = "failed"]
          /\ UNCHANGED <<form, records, showDialog>>
  /\ UNCHANGED <<server, fetch>>

\* ------------------------------------------------------ specifications
\* The server under arbitrary callers, the store answering every operation.
Next == Submit \/ Save \/ List \/ Find

Spec == Init /\ [][Next]_vars

\* The same with store operations that may fail.
NextFail == Submit \/ Save \/ List \/ Find \/ SaveError \/ FindError

SpecFail == Init /\ [][NextFail]_vars

\* The App against the server: every request is one of the App's.
NextClient ==
  \/ FetchData \/ FetchDataResumes \/ OpenDialog \/ Cancel \/ HandleChange
  \/ HandleSubmit \/ HandleSubmitPosted \/ HandleSubmitListed
  \/ Save \/ Find \/ SaveError \/ FindError

SpecClient == Init /\ [][NextClient]_vars

\* ------------------------------------------------------------ properties
\* Vocabulary of the properties, stated independently of the handlers.
AllNumbers(p) ==
  p.Altitude.t = "number" /\ p.HIS.t = "number" /\ p.ADI.t = "number"
AltitudeInRange(p) == p.Altitude.v >= 0 /\ p.Altitude.v <= 3000
ADIInRange(p) == p.ADI.v >= -100 /\ p.ADI.v <= 100
\* Request r is a submit that has been answered.
Answered(r) == req[r].method = "POST" /\ req[r].pc = "done"
\* Request r is a list that has been answered.
ListAnswered(r) == req[r].method = "GET" /\ req[r].pc = "done"
\* The stored readings that request r's document became.
RecordsOf(r) == {i \in DOMAIN collection : collection[i]._id = req[r].doc._id}
Accepted == {r \in Req : Answered(r) /\ req[r].status = 201}
SameValues(a, b) == a.Altitude = b.Altitude /\ a.HIS = b.HIS /\ a.ADI = b.ADI
Range(s) == {s[i] : i \in DOMAIN s}
Reverse(s) == [i \in 1..Len(s) |-> s[Len(s) + 1 - i]]
IsPrefix(a, b) == Len(a) <= Len(b) /\ SubSeq(b, 1, Len(a)) = a
IsSuffix(a, b) == Len(a) <= Len(b) /\ SubSeq(b, Len(b) - Len(a) + 1, Len(b)) = a
RECURSIVE IsSubseq(_, _)
IsSubseq(a, b) ==
  IF a = <<>> THEN TRUE
  ELSE IF b = <<>> THEN FALSE
  ELSE IF Head(a) = Head(b) THEN IsSubseq(Tail(a), Tail(b))
  ELSE IsSubseq(a, Tail(b))

\* C1: every answered submit whose Altitude is a number in [0,3000], whose ADI
\* is a number in [-100,100] and whose HIS is any number was accepted (201),
\* and a list contains its record with the same Altitude and ADI and with HIS
\* equal to the mathematical HIS mod 360.
C1_AnyHeadingAcceptedModulo360 ==
  \A r \in Req :
    (/\ Answered(r)
     /\ AllNumbers(req[r].body)
     /\ AltitudeInRange(req[r].body)
     /\ ADIInRange(req[r].body))
    => /\ req[r].status = 201
       /\ \E i \in DOMAIN find :
            find[i] = [_id |-> req[r].doc._id,
                       Altitude |-> req[r].body.Altitude.v,
                       HIS |-> req[r].body.HIS.v % 360,
                       ADI |-> req[r].body.ADI.v]

\* C2: every reading held in the store satisfies 0 <= Altitude <= 3000,
\* 0 <= HIS < 360 and -100 <= ADI <= 100.
C2_StoredReadingsInRange ==
  \A i \in DOMAIN collection :
    /\ collection[i].Altitude >= 0 /\ collection[i].Altitude <= 3000
    /\ collection[i].HIS >= 0 /\ collection[i].HIS < 360
    /\ collection[i].ADI >= -100 /\ collection[i].ADI <= 100

\* C2 witness: a reading is stored whose HIS was sent as 370, and a submit
\* with an out-of-range field has been refused.
C2_Witness ==
  /\ \E r \in Accepted : req[r].body.HIS = JsNum(370) /\ RecordsOf(r) # {}
  /\ \E r \in Req : Answered(r) /\ req[r].status = 400 /\ req[r].err.errors # {}

\* A submit with a missing or non-numeric field is in no other state than
\* answered, with 400 and the fixed body, without a document.
C3_NonNumericState ==
  \A r \in Req :
    (req[r].method = "POST" /\ ~AllNumbers(req[r].body))
    => /\ req[r].pc = "done"
       /\ req[r].status = 400
       /\ req[r].msg = InvalidInputMsg
       /\ req[r].doc = NoDoc
       /\ RecordsOf(r) = {}
\* The step that answers such a submit leaves the store as it was.
C3_NonNumericStep ==
  \A r \in Req :
    (/\ req[r].pc = "free"
     /\ req'[r].method = "POST"
     /\ ~AllNumbers(req'[r].body))
    => collection' = collection /\ idCounter' = idCounter
\* C3: a submit in which a field is missing or not a number is answered 400
\* with the fixed body, never reaches the store (no document is built, no save
\* is awaited), and the step that answers it leaves the stored readings as
\* they were.
C3_NonNumericRejected == []C3_NonNumericState /\ [][C3_NonNumericStep]_vars

\* C3 witness: submits with a missing field and with a string field have been
\* answered while the store holds a reading.
C3_Witness ==
  /\ collection # <<>>
  /\ \E r \in Req : Answered(r) /\ undefined \in Range(<<req[r].body.Altitude, req[r].body.HIS, req[r].body.ADI>>)
  /\ \E r \in Req : Answered(r) /\ JsStr \in Range(<<req[r].body.Altitude, req[r].body.HIS, req[r].body.ADI>>)

\* An answered submit with an out-of-range Altitude or ADI got 400 with the
\* validation error's message, and no stored reading is its document.
C4_OutOfRangeState ==
  \A r \in Req :
    (/\ Answered(r)
     /\ AllNumbers(req[r].body)
     /\ ~(AltitudeInRange(req[r].body) /\ ADIInRange(req[r].body)))
    => /\ req[r].status = 400
       /\ req[r].err.errors # {}
       /\ req[r].msg = req[r].err
       /\ RecordsOf(r) = {}
\* The step that answers such a submit leaves the store and what a list
\* returns as they were.
C4_OutOfRangeStep ==
  \A r \in Req :
    (/\ req[r].pc = "saving"
     /\ req'[r].pc = "done"
     /\ ~(AltitudeInRange(req[r].body) /\ ADIInRange(req[r].body)))
    => collection' = collection /\ find' = find
\* C4: a submit whose fields are all numbers but whose Altitude is outside
\* [0,3000] or whose ADI is outside [-100,100] is answered 400 with the
\* validation error's message, never 201; none of the stored readings is its
\* document, and the step that answers it leaves the store, and so the result
\* of a list, unchanged.
C4_OutOfRangeRejected == []C4_OutOfRangeState /\ [][C4_OutOfRangeStep]_vars

\* C4 witness: out-of-range Altitude and out-of-range ADI have both been
\* refused while the store holds a reading.
C4_Witness ==
  /\ collection # <<>>
  /\ \E r \in Req : Answered(r) /\ req[r].body.Altitude = JsNum(3001)
  /\ \E r \in Req : Answered(r) /\ req[r].body.ADI = JsNum(-101)

C5_ListState ==
  \A r \in Req :
    ListAnswered(r)
    => /\ req[r].status = 200
       /\ Range(req[r].data) = Range(SubSeq(collection, 1, Len(req[r].data)))
       /\ \A i, j \in DOMAIN req[r].data :
            i < j =>
              /\ req[r].data[i]._id > req[r].data[j]._id
              /\ \E ri, rj \in Req :
                   /\ req[ri].doc = req[r].data[i]
                   /\ req[rj].doc = req[r].data[j]
                   /\ ri > rj
\* The step that answers a list returns every record accepted so far, once
\* each, and an empty array when there is none.
C5_ListStep ==
  \A r \in Req :
    (req[r].pc = "finding" /\ req'[r].pc = "done")
    => /\ Len(req'[r].data) = Len(collection)
       /\ Range(req'[r].data) = Range(collection)
       /\ (Accepted = {} => req'[r].data = <<>>)
C6_Heading360StoredAsZero ==
  /\ \A r \in Req :
       (/\ Answered(r)
        /\ AllNumbers(req[r].body)
        /\ req[r].body.HIS.v = 360
        /\ AltitudeInRange(req[r].body)
        /\ ADIInRange(req[r].body))
       => /\ req[r].status = 201
          /\ RecordsOf(r) # {}
          /\ \A i \in RecordsOf(r) : collection[i].HIS = 0
  /\ \A i \in DOMAIN collection : collection[i].HIS # 360
  /\ telemetrySchema([_id |-> 1, Altitude |-> 100, HIS |-> 360, ADI |-> 0]) = {}

\* C6 witness: a submit with HIS 360 has been answered.
C6_Witness ==
  \E r \in Req : Answered(r) /\ req[r].body.HIS = JsNum(360) /\ RecordsOf(r) # {}

\* C7: every submit answered 201 has added exactly one record, with an
\* identifier no other record has, also when its values equal those of a
\* stored record and when submits overlap; a submit answered 400 has added
\* none; so the store, and a list of it, holds exactly as many records as
\* submits were accepted.
C7_EveryAcceptedSubmitAddsOneRecord ==
  /\ \A r \in Req :
       Answered(r) =>
         /\ req[r].status \in {201, 400}
         /\ req[r].status = 201 => Cardinality(RecordsOf(r)) = 1
         /\ req[r].status = 400 => RecordsOf(r) = {}
  /\ \A i, j \in DOMAIN collection : i # j => collection[i]._id # collection[j]._id
  /\ Len(collection) = Cardinality(Accepted)
  /\ Len(find) = Cardinality(Accepted)

\* C7 witness: two readings with equal values are stored, accepted in the
\* order opposite to that in which their handlers started (so the submits
\* were in flight together), and a third submit was answered 400.
C7_Witness ==
  /\ \E i, j \in DOMAIN collection :
       /\ i < j
       /\ SameValues(collection[i], collection[j])
       /\ collection[i]._id > collection[j]._id
  /\ \E r \in Req : Answered(r) /\ req[r].status = 400

\* No step removes or alters a stored record, and a list's steps leave the
\* store alone.
C8_AppendOnlyStep ==
  /\ IsPrefix(collection, collection')
  /\ (\E r \in Req : req'[r] # req[r] /\ req'[r].method = "GET")
       => collection' = collection
\* Every list result already returned is a suffix of the result a list
\* returns now.
C8_EarlierListIsSuffix ==
  \A r \in Req : ListAnswered(r) => IsSuffix(req[r].data, find)
\* Every list result already returned is a subsequence of the result a list
\* returns now.
C8_EarlierListIsSubsequence ==
  \A r \in Req : ListAnswered(r) => IsSubseq(req[r].data, find)

C9_StoreFailuresAnswered4xx ==
  \A r \in Req :
    req[r].err # NoMsg
    => /\ req[r].pc = "done"
       /\ req[r].status >= 400 /\ req[r].status <= 499

\* After a successful handleSubmit the displayed records contain the reading
\* it submitted.
C10_SubmittedReadingDisplayed ==
  submit.pc = "succeeded"
  => \E i \in DOMAIN records : records[i]._id = req[submit.post].doc._id
\* The step in which handleSubmit fails leaves records, form and dialog alone.
C10_FailureStep ==
  (submit.pc \in {"posting", "getting"} /\ submit'.pc = "failed")
  => UNCHANGED <<records, form, showDialog>>
\* C10: once handleSubmit has completed successfully the displayed records
\* contain the reading it submitted, whenever the startup fetchData's
\* response arrives; and the step in which handleSubmit fails leaves the
\* displayed records, the form contents and the open dialog unchanged.
C10_SubmitThenDisplayed == []C10_SubmittedReadingDisplayed /\ [][C10_FailureStep]_vars
====
